---- MODULE Spec2Model ----
(***************************************************************************)
(* Inventory & lending consistency core of the library backend:            *)
(* book copies, borrow records (loans), reservations, carts, the checkout  *)
(* transaction and the expired-pickup sweep.                               *)
(*                                                                         *)
(* Every request handler runs in its own database transaction.  A handler  *)
(* is modelled by the statements it sends: its reads (one step, against    *)
(* the committed rows, as under READ COMMITTED) and its commit (one step,  *)
(* the flush of the ORM's pending INSERT/UPDATE/DELETE).  Rows selected    *)
(* with_for_update() stay locked by the transaction until it commits or    *)
(* rolls back; a write to a row locked by another transaction waits.       *)
(***************************************************************************)
EXTENDS Integers, Sequences, FiniteSets, TLC

\* ------------------------------------------------------------------ bounds
MaxLoans == 3
MaxReservations == 2
MaxDays == 3
MaxOps == 5
MaxReserveOps == 4
MaxOverlapOps == 3
MaxReserveOverlapOps == 3
MaxPickupOps == 4
MaxSweepOverlapOps == 3
MaxCatalogOps == 3
MaxDueOps == 2
MaxLiveOps == 2
MaxReserveLiveOps == 2
MaxReserveRaceOps == 4
MaxCartRaceOps == 3

\* ------------------------------------------------------- program constants
PICKUP_EXPIRY_HOURS == 48
RESERVATION_TTL_HOURS == 48
max_instances == 1
DEFAULT_LOAN_DAYS == 14

\* ---------------------------------------------------------------- universe
Users == {"u1", "u2"}
Books == {"b1", "b2"}
\* The book ids a request can carry: "b0" is the id of no book.
BookIds == Books \cup {"b0"}
CopyIds == {"c1", "c2", "c3"}
Procs == {"p1", "p2"}
NULL == -1

\* BookCopy.book_id: c1 and c2 are copies of b1, c3 is the only copy of b2.
BookOf(c) == IF c = "c3" THEN "b2" ELSE "b1"

VARIABLES
    copies,        \* book_copies rows: copy id -> status ("DELETED": no row)
    loans,         \* borrow_records rows, in insertion order
    reservations,  \* reservations rows, in insertion order
    carts,         \* carts/cart_items rows: user -> [exists, items]
    now,           \* datetime.utcnow(), in hours
    copyLock,      \* row lock on a book_copies row: copy id -> holder
    cartLock,      \* row lock on a carts row: user -> holder
    req,           \* the request handlers in flight: proc -> its locals
    sweeper,       \* the scheduler's check_expired_pickups job
    ops,           \* requests and sweeps the environment may still start
    serial,        \* TRUE: requests arrive one at a time; FALSE: they overlap
    books          \* books rows: the ids of the books of the catalog

vars == <<copies, loans, reservations, carts, now, copyLock, cartLock, req, sweeper, ops, serial,
          books>>
db == <<copies, loans, reservations, carts>>

NoHolder == "-"

Idle == [op |-> "idle", pc |-> "idle", user |-> "-", copy |-> "-", book |-> "-",
         rec |-> 0, seen |-> "-", resv |-> 0, items |-> <<>>, cands |-> {},
         acquired |-> <<>>, failed |-> <<>>, created |-> {}, waited |-> FALSE,
         due |-> NULL, result |-> "-"]

\* The scheduler's job: pc and recs are the oldest running instance and the
\* records it has read, later the records read by the instances started while
\* it runs, skipped whether a firing of the trigger was dropped during the run.
SweeperIdle == [pc |-> "idle", recs |-> {}, later |-> <<>>, skipped |-> FALSE]

\* ----------------------------------------------------------------- helpers
CopyExists(c) == copies[c] # "DELETED"

LoanIds == 1..Len(loans)
ResIds == 1..Len(reservations)

\* Reservation rows that still exist (a row deleted by cascade is gone).
ResRows == {i \in ResIds : reservations[i].status # "DELETED"}

\* BorrowRecord rows that still exist (a row deleted by cascade is gone).
LoanRows == {i \in LoanIds : loans[i].status # "DELETED"}

OpenLoans(c) == {i \in LoanRows : loans[i].copy = c /\ loans[i].status \in {"PENDING", "ACTIVE"}}

\* Variant that counts no copy as AVAILABLE.
NoAvailableCopies(b) == {}

AvailableCopies(b) == {c \in CopyIds : BookOf(c) = b /\ copies[c] = "AVAILABLE"}

Free(p) == req[p].pc \in {"idle", "done"}

Quiet == (\A q \in Procs : Free(q)) /\ sweeper.pc = "idle"

\* A request (or a sweep) may start: the environment issues a bounded number
\* of them, and one at a time when serial.
MayStart == ops > 0 /\ (serial => Quiet)
CanStart(p) == Free(p) /\ MayStart

\* Variants without row locks: with_for_update() left out of the SELECT.
CopyNeverLocked(p, c) == TRUE
CartNeverLocked(p, u) == TRUE

\* A row lock held by another transaction makes a write (or a locking read) wait.
CopyUnlockedFor(p, c) == copyLock[c] \in {NoHolder, p}
CartUnlockedFor(p, u) == cartLock[u] \in {NoHolder, p}

\* The handler's reply: its locals are dropped, its outcome is kept (and
\* whether the request had to wait for a row lock).
Reply(r, res) == [Idle EXCEPT !.op = r.op, !.pc = "done", !.user = r.user,
                              !.waited = r.waited, !.result = res]

NewLoan(c, u, st, due) == [copy |-> c, user |-> u, status |-> st, created_at |-> now,
                           borrowed_at |-> now, returned_at |-> NULL, due_date |-> due]

\* The due date a checkout without due_date gets (cart.py line 314), and the
\* one the clients send with a borrow request.
InTwoWeeks == now + 24 * DEFAULT_LOAN_DAYS

\* ----------------------------------------------------------- borrow_book
\* Variant of the reads without the check of the copy's status.
borrow_book_unchecked(p, u, c, due) ==
    /\ CanStart(p)
    /\ Len(loans) < MaxLoans
    /\ LET r == [Idle EXCEPT !.op = "borrow_book", !.user = u, !.copy = c, !.due = due] IN
       req' = [req EXCEPT ![p] =
                 IF ~CopyExists(c) THEN [Reply(r, "NotFound") EXCEPT !.copy = c]
                 ELSE [r EXCEPT !.pc = "commit"]]
    /\ UNCHANGED <<copies, loans, reservations, carts, now, copyLock, cartLock, sweeper>>
    /\ ops' = ops - 1 /\ UNCHANGED <<serial, books>>

\* book_copies.py borrow_book: the reads (lines 152-167).
borrow_book_read(p, u, c, due) ==
    /\ CanStart(p)
    /\ Len(loans) < MaxLoans
    /\ LET r == [Idle EXCEPT !.op = "borrow_book", !.user = u, !.copy = c, !.due = due] IN
       req' = [req EXCEPT ![p] =
                 IF ~CopyExists(c) THEN [Reply(r, "NotFound") EXCEPT !.copy = c]
                 ELSE IF copies[c] # "AVAILABLE" THEN [Reply(r, "BadRequest") EXCEPT !.copy = c]
                 ELSE [r EXCEPT !.pc = "commit"]]
    /\ UNCHANGED <<copies, loans, reservations, carts, now, copyLock, cartLock, sweeper>>
    /\ ops' = ops - 1 /\ UNCHANGED <<serial, books>>

\* book_copies.py borrow_book: the commit (lines 169-184): INSERT the ACTIVE
\* record and UPDATE book_copies SET status = BORROWED WHERE id = copy_id.
\* The UPDATE waits for a row lock; on a row deleted meanwhile the flush fails.
borrow_book_commit(p) ==
    /\ req[p].op = "borrow_book" /\ req[p].pc = "commit"
    /\ CopyUnlockedFor(p, req[p].copy)
    /\ Len(loans) < MaxLoans
    /\ IF ~CopyExists(req[p].copy)
       THEN /\ req' = [req EXCEPT ![p] = Reply(req[p], "Error")]
            /\ UNCHANGED <<copies, loans>>
       ELSE /\ loans' = Append(loans, NewLoan(req[p].copy, req[p].user, "ACTIVE", req[p].due))
            /\ copies' = [copies EXCEPT ![req[p].copy] = "BORROWED"]
            /\ req' = [req EXCEPT ![p] =
                         [Reply(req[p], "ok") EXCEPT !.created = {Len(loans) + 1},
                                                     !.copy = req[p].copy]]
    /\ UNCHANGED <<reservations, carts, now, copyLock, cartLock, sweeper>>
    /\ UNCHANGED <<ops, serial, books>>

\* ------------------------------------------- return_book (by copy id)
\* Reservation.is_expired (models/reservation.py lines 31-34).
is_expired(r) == r.status = "PENDING" /\ now > r.expires_at

\* The PENDING reservations of a book that ORDER BY reserved_at ASC LIMIT 1 can
\* return (book_copies.py lines 228-235): those with the smallest reserved_at.
FirstPending(b) ==
    LET pend == {i \in ResIds : reservations[i].book = b /\ reservations[i].status = "PENDING"}
    IN {i \in pend : \A j \in pend : reservations[i].reserved_at <= reservations[j].reserved_at}

\* book_copies.py return_book: the reads (lines 195-218 and 227-240).  The
\* ACTIVE record of this copy and this user is read with scalar_one_or_none(),
\* which raises when two rows match.  resv is the reservation the handler will
\* mark FULFILLED: the first PENDING one, unless it is expired (0: none).
return_book_read(p, u, c) ==
    /\ CanStart(p)
    /\ LET r == [Idle EXCEPT !.op = "return_book", !.user = u, !.copy = c]
           act == {i \in LoanRows : /\ loans[i].copy = c /\ loans[i].user = u
                                     /\ loans[i].status = "ACTIVE"}
       IN IF ~CopyExists(c) \/ act = {}
          THEN req' = [req EXCEPT ![p] = [Reply(r, "NotFound") EXCEPT !.copy = c]]
          ELSE IF Cardinality(act) > 1
          THEN req' = [req EXCEPT ![p] = Reply(r, "Error")]
          ELSE \E i \in act :
               IF FirstPending(BookOf(c)) = {}
               THEN req' = [req EXCEPT ![p] =
                              [r EXCEPT !.pc = "commit", !.rec = i, !.seen = copies[c]]]
               ELSE \E f \in FirstPending(BookOf(c)) :
                    req' = [req EXCEPT ![p] =
                              [r EXCEPT !.pc = "commit", !.rec = i, !.seen = copies[c],
                                        !.resv = IF is_expired(reservations[f]) THEN 0 ELSE f]]
    /\ UNCHANGED <<copies, loans, reservations, carts, now, copyLock, cartLock, sweeper>>
    /\ ops' = ops - 1 /\ UNCHANGED <<serial, books>>

\* Variant of the return that hands the copy over: the reservation it
\* fulfils gets a PENDING record and the copy stays BORROWED.
return_book_handover(p) ==
    /\ req[p].op = "return_book" /\ req[p].pc = "commit"
    /\ CopyUnlockedFor(p, req[p].copy)
    /\ IF ~CopyExists(req[p].copy) \/ req[p].rec \notin LoanRows
       THEN /\ req' = [req EXCEPT ![p] = Reply(req[p], "Error")]
            /\ UNCHANGED <<copies, loans, reservations>>
       ELSE LET returned == [loans EXCEPT ![req[p].rec].status = "RETURNED",
                                          ![req[p].rec].returned_at = now]
            IN /\ IF req[p].resv = 0
                  THEN /\ loans' = returned
                       /\ copies' = [copies EXCEPT ![req[p].copy] = "AVAILABLE"]
                       /\ UNCHANGED reservations
                  ELSE /\ loans' = Append(returned,
                                          NewLoan(req[p].copy,
                                                  reservations[req[p].resv].user, "PENDING",
                                                  InTwoWeeks))
                       /\ copies' = [copies EXCEPT ![req[p].copy] = "BORROWED"]
                       /\ reservations' =
                            [reservations EXCEPT ![req[p].resv].status = "FULFILLED",
                                                 ![req[p].resv].fulfilled_at = now]
               /\ req' = [req EXCEPT ![p] = [Reply(req[p], "ok") EXCEPT !.resv = req[p].resv]]
    /\ UNCHANGED <<carts, now, copyLock, cartLock, sweeper>>
    /\ UNCHANGED <<ops, serial, books>>

\* book_copies.py return_book: the commit (lines 220-225 and 241-248).  The ORM
\* writes the attributes that changed since they were loaded: the copy's status
\* is written unless it was loaded as AVAILABLE.
return_book_commit(p) ==
    /\ req[p].op = "return_book" /\ req[p].pc = "commit"
    /\ CopyUnlockedFor(p, req[p].copy)
    /\ IF ~CopyExists(req[p].copy) \/ req[p].rec \notin LoanRows
       THEN /\ req' = [req EXCEPT ![p] = Reply(req[p], "Error")]
            /\ UNCHANGED <<copies, loans, reservations>>
       ELSE /\ loans' = [loans EXCEPT ![req[p].rec].status = "RETURNED",
                                      ![req[p].rec].returned_at = now]
            /\ copies' = IF req[p].seen = "AVAILABLE" THEN copies
                         ELSE [copies EXCEPT ![req[p].copy] = "AVAILABLE"]
            /\ reservations' =
                 IF req[p].resv = 0 THEN reservations
                 ELSE [reservations EXCEPT ![req[p].resv].status = "FULFILLED",
                                           ![req[p].resv].fulfilled_at = now]
            /\ req' = [req EXCEPT ![p] = [Reply(req[p], "ok") EXCEPT !.resv = req[p].resv]]
    /\ UNCHANGED <<carts, now, copyLock, cartLock, sweeper>>
    /\ UNCHANGED <<ops, serial, books>>

\* ------------------------------------------------- borrowing.py handlers
\* borrowing.py confirm_pickup: the reads (lines 88-97).
confirm_pickup_read(p, i) ==
    /\ CanStart(p)
    /\ LET r == [Idle EXCEPT !.op = "confirm_pickup", !.rec = i] IN
       req' = [req EXCEPT ![p] =
                 IF i \notin LoanRows THEN Reply(r, "NotFound")
                 ELSE IF loans[i].status # "PENDING"
                      THEN [Reply(r, "BadRequest") EXCEPT !.rec = i]
                 ELSE [r EXCEPT !.pc = "commit"]]
    /\ UNCHANGED <<copies, loans, reservations, carts, now, copyLock, cartLock, sweeper>>
    /\ ops' = ops - 1 /\ UNCHANGED <<serial, books>>

\* Variant of the commit that keeps the borrowed_at of the checkout.
confirm_pickup_keeps_time(p) ==
    /\ req[p].op = "confirm_pickup" /\ req[p].pc = "commit"
    /\ IF req[p].rec \notin LoanRows
       THEN /\ req' = [req EXCEPT ![p] = Reply(req[p], "Error")]
            /\ UNCHANGED loans
       ELSE /\ loans' = [loans EXCEPT ![req[p].rec].status = "ACTIVE"]
            /\ req' = [req EXCEPT ![p] = [Reply(req[p], "ok") EXCEPT !.rec = req[p].rec]]
    /\ UNCHANGED <<copies, reservations, carts, now, copyLock, cartLock, sweeper>>
    /\ UNCHANGED <<ops, serial, books>>

\* borrowing.py confirm_pickup: the commit (lines 99-101).
confirm_pickup_commit(p) ==
    /\ req[p].op = "confirm_pickup" /\ req[p].pc = "commit"
    /\ IF req[p].rec \notin LoanRows
       THEN /\ req' = [req EXCEPT ![p] = Reply(req[p], "Error")]
            /\ UNCHANGED loans
       ELSE /\ loans' = [loans EXCEPT ![req[p].rec].status = "ACTIVE",
                                      ![req[p].rec].borrowed_at = now]
            /\ req' = [req EXCEPT ![p] = [Reply(req[p], "ok") EXCEPT !.rec = req[p].rec]]
    /\ UNCHANGED <<copies, reservations, carts, now, copyLock, cartLock, sweeper>>
    /\ UNCHANGED <<ops, serial, books>>

\* borrowing.py return_book (by record id): the reads (lines 115-126).  Only a
\* RETURNED record is refused; the record's copy is loaded with it.
borrowing_return_book_read(p, i) ==
    /\ CanStart(p)
    /\ LET r == [Idle EXCEPT !.op = "borrowing_return_book", !.rec = i] IN
       req' = [req EXCEPT ![p] =
                 IF i \notin LoanRows THEN Reply(r, "NotFound")
                 ELSE IF loans[i].status = "RETURNED"
                      THEN [Reply(r, "BadRequest") EXCEPT !.rec = i]
                 ELSE [r EXCEPT !.pc = "commit", !.copy = loans[i].copy,
                                !.seen = copies[loans[i].copy]]]
    /\ UNCHANGED <<copies, loans, reservations, carts, now, copyLock, cartLock, sweeper>>
    /\ ops' = ops - 1 /\ UNCHANGED <<serial, books>>

\* borrowing.py return_book (by record id): the commit (lines 128-137).  No
\* reservation is read or written.
borrowing_return_book_commit(p) ==
    /\ req[p].op = "borrowing_return_book" /\ req[p].pc = "commit"
    /\ CopyUnlockedFor(p, req[p].copy)
    /\ IF ~CopyExists(req[p].copy) \/ req[p].rec \notin LoanRows
       THEN /\ req' = [req EXCEPT ![p] = Reply(req[p], "Error")]
            /\ UNCHANGED <<copies, loans>>
       ELSE /\ loans' = [loans EXCEPT ![req[p].rec].status = "RETURNED",
                                      ![req[p].rec].returned_at = now]
            /\ copies' = IF req[p].seen = "AVAILABLE" THEN copies
                         ELSE [copies EXCEPT ![req[p].copy] = "AVAILABLE"]
            /\ req' = [req EXCEPT ![p] = [Reply(req[p], "ok") EXCEPT !.rec = req[p].rec]]
    /\ UNCHANGED <<reservations, carts, now, copyLock, cartLock, sweeper>>
    /\ UNCHANGED <<ops, serial, books>>

\* ---------------------------------------------- librarian's copy management
\* book_copies.py update_book_copy (lines 93-110): the status of the request
\* body is written to the row, whatever the copy's loans are.
update_book_copy(p, c, st) ==
    /\ CanStart(p)
    /\ CopyUnlockedFor(p, c)
    /\ LET r == [Idle EXCEPT !.op = "update_book_copy", !.copy = c] IN
       IF ~CopyExists(c)
       THEN /\ req' = [req EXCEPT ![p] = Reply(r, "NotFound")]
            /\ UNCHANGED copies
       ELSE /\ copies' = [copies EXCEPT ![c] = st]
            /\ req' = [req EXCEPT ![p] = Reply(r, "ok")]
    /\ UNCHANGED <<loans, reservations, carts, now, copyLock, cartLock, sweeper>>
    /\ ops' = ops - 1 /\ UNCHANGED <<serial, books>>

\* book_copies.py delete_book_copy (lines 121-140).  BookCopy.borrow_records
\* cascades "all, delete-orphan" (models/book_copy.py line 37): the copy's
\* borrow records are deleted with it.
delete_book_copy(p, c) ==
    /\ CanStart(p)
    /\ CopyUnlockedFor(p, c)
    /\ LET r == [Idle EXCEPT !.op = "delete_book_copy", !.copy = c] IN
       IF ~CopyExists(c)
       THEN /\ req' = [req EXCEPT ![p] = Reply(r, "NotFound")]
            /\ UNCHANGED <<copies, loans>>
       ELSE IF copies[c] = "BORROWED"
       THEN /\ req' = [req EXCEPT ![p] = Reply(r, "BadRequest")]
            /\ UNCHANGED <<copies, loans>>
       ELSE /\ copies' = [copies EXCEPT ![c] = "DELETED"]
            /\ loans' = [i \in LoanIds |->
                           IF loans[i].copy = c
                           THEN [loans[i] EXCEPT !.status = "DELETED"] ELSE loans[i]]
            /\ req' = [req EXCEPT ![p] = Reply(r, "ok")]
    /\ UNCHANGED <<reservations, carts, now, copyLock, cartLock, sweeper>>
    /\ ops' = ops - 1 /\ UNCHANGED <<serial, books>>

\* The cart items left when book b's rows are gone.
WithoutBook(items, b) ==
    LET keep(x) == x # b IN SelectSeq(items, keep)

\* books.py delete_book (lines 344-364): the book row is deleted whatever the
\* status of its copies.  Book.copies and Book.reservations cascade "all,
\* delete-orphan" (models/book.py lines 66-68), BookCopy.borrow_records too
\* (models/book_copy.py line 37), and cart_items.book_id is ON DELETE CASCADE
\* (models/cart.py line 34).
delete_book(p, b) ==
    /\ CanStart(p)
    /\ \A c \in CopyIds : BookOf(c) = b => CopyUnlockedFor(p, c)
    /\ LET r == [Idle EXCEPT !.op = "delete_book", !.book = b] IN
       IF b \notin books
       THEN /\ req' = [req EXCEPT ![p] = Reply(r, "NotFound")]
            /\ UNCHANGED <<books, copies, loans, reservations, carts>>
       ELSE /\ books' = books \ {b}
            /\ copies' = [c \in CopyIds |-> IF BookOf(c) = b THEN "DELETED" ELSE copies[c]]
            /\ loans' = [i \in LoanIds |->
                           IF BookOf(loans[i].copy) = b
                           THEN [loans[i] EXCEPT !.status = "DELETED"] ELSE loans[i]]
            /\ reservations' = [i \in ResIds |->
                                  IF reservations[i].book = b
                                  THEN [reservations[i] EXCEPT !.status = "DELETED"]
                                  ELSE reservations[i]]
            /\ carts' = [u \in Users |->
                           [carts[u] EXCEPT !.items = WithoutBook(@, b)]]
            /\ req' = [req EXCEPT ![p] = Reply(r, "ok")]
    /\ UNCHANGED <<now, copyLock, cartLock, sweeper>>
    /\ ops' = ops - 1 /\ UNCHANGED serial

\* ------------------------------------------------- expired-pickup sweep
\* Variant of the sweep's query without the age condition.
AllPendingPickups == {i \in LoanRows : loans[i].status = "PENDING"}

\* scheduler.py _cancel_expired_pickups_in_session: the read (lines 108-120).
ExpiredPickups ==
    {i \in LoanRows : /\ loans[i].status = "PENDING"
                      /\ loans[i].created_at <= now - PICKUP_EXPIRY_HOURS}

\* The instances of the job that are executing.
RunningSweeps == (IF sweeper.pc = "commit" THEN 1 ELSE 0) + Len(sweeper.later)

\* Variant of the job's configuration without a limit on its instances.
SweepAlwaysRuns == TRUE

\* scheduler.py start_scheduler: the job is added with max_instances=1 (lines
\* 181-188), so the executor starts a run only while fewer instances execute.
SweepMayRun == RunningSweeps < max_instances

\* Variant of the configuration in which the job is never run.
SweepNeverRuns == FALSE

\* scheduler.py start_scheduler: NEWS_SCHEDULER_ENABLED is True unless the
\* deployment overrides it (config.py line 42), so the job is added with an
\* interval trigger of one hour (lines 181-188) and the scheduler is started
\* (line 190).
SweepIsScheduled == TRUE

\* The trigger fires and a run starts.  A run that finds nothing ends at once.
\* cost is what the firing takes from the budget of the environment.
sweep_run(cost) ==
    /\ SweepIsScheduled /\ SweepMayRun
    /\ ops >= cost /\ (serial => Quiet)
    /\ sweeper' = IF ExpiredPickups = {} THEN sweeper
                  ELSE IF sweeper.pc = "idle"
                       THEN [SweeperIdle EXCEPT !.pc = "commit", !.recs = ExpiredPickups]
                  ELSE [sweeper EXCEPT !.later = Append(@, ExpiredPickups)]
    /\ UNCHANGED <<copies, loans, reservations, carts, now, copyLock, cartLock, req>>
    /\ ops' = ops - cost /\ UNCHANGED <<serial, books>>

\* A run among the bounded number of requests and sweeps of the environment.
sweep_read == sweep_run(1)

\* A run started by the interval trigger, which fires every hour whatever
\* the requests of the environment are.
sweep_tick == sweep_run(0)

\* scheduler.py _cancel_expired_pickups_in_session: the writes (lines 122-144):
\* each record read is set CANCELLED and its copy's row is set AVAILABLE by an
\* UPDATE ... WHERE id = copy_id, whatever the row's status is.
sweep_commit ==
    /\ sweeper.pc = "commit"
    /\ \A i \in sweeper.recs : copyLock[loans[i].copy] = NoHolder
    /\ IF sweeper.recs \subseteq LoanRows
       THEN /\ loans' = [i \in LoanIds |->
                           IF i \in sweeper.recs
                           THEN [loans[i] EXCEPT !.status = "CANCELLED"] ELSE loans[i]]
            /\ copies' = [c \in CopyIds |->
                            IF \E i \in sweeper.recs : loans[i].copy = c
                            THEN "AVAILABLE" ELSE copies[c]]
       ELSE UNCHANGED <<copies, loans>>
    /\ sweeper' = IF sweeper.later = <<>> THEN SweeperIdle
                  ELSE [sweeper EXCEPT !.recs = Head(sweeper.later),
                                       !.later = Tail(sweeper.later)]
    /\ UNCHANGED <<reservations, carts, now, copyLock, cartLock, req>>
    /\ UNCHANGED <<ops, serial, books>>

\* scheduler.py start_scheduler, max_instances=1 (line 187): the trigger fires
\* while the job's instances are all taken, and the firing is dropped.
sweep_skip ==
    /\ ~SweepMayRun /\ MayStart
    /\ sweeper' = [sweeper EXCEPT !.skipped = TRUE]
    /\ UNCHANGED <<copies, loans, reservations, carts, now, copyLock, cartLock, req>>
    /\ ops' = ops - 1 /\ UNCHANGED <<serial, books>>

\* ------------------------------------------------------------ add_to_cart
\* cart.py add_to_cart: the reads (lines 107-180).  seen records whether the
\* cart row existed or is created by this request.
add_to_cart_read(p, u, b) ==
    /\ CanStart(p)
    /\ LET r == [Idle EXCEPT !.op = "add_to_cart", !.user = u, !.book = b]
           mine == {i \in LoanRows : /\ BookOf(loans[i].copy) = b /\ loans[i].user = u
                                      /\ loans[i].status \in {"ACTIVE", "PENDING"}}
           same == {k \in 1..Len(carts[u].items) : carts[u].items[k] = b}
       IN req' = [req EXCEPT ![p] =
                    IF b \notin books THEN Reply(r, "NotFound")
                    ELSE IF AvailableCopies(b) = {} THEN Reply(r, "NoAvailableCopy")
                    ELSE IF mine # {} THEN Reply(r, "AlreadyBorrowed")
                    ELSE IF Cardinality(same) > 1 THEN Reply(r, "Error")
                    ELSE IF same # {} THEN Reply(r, "AlreadyInCart")
                    ELSE [r EXCEPT !.pc = "commit",
                                   !.seen = IF carts[u].exists THEN "cart" ELSE "nocart"]]
    /\ UNCHANGED <<copies, loans, reservations, carts, now, copyLock, cartLock, sweeper>>
    /\ ops' = ops - 1 /\ UNCHANGED <<serial, books>>

\* cart.py add_to_cart: the commit (lines 182-193): INSERT the item (and the
\* cart created for it) and UPDATE carts SET updated_at, which waits for the
\* cart's row lock.  carts.user_id is unique (models/cart.py line 16).
add_to_cart_commit(p) ==
    /\ req[p].op = "add_to_cart" /\ req[p].pc = "commit"
    /\ CartUnlockedFor(p, req[p].user)
    /\ IF req[p].seen = "nocart" /\ carts[req[p].user].exists
       THEN /\ req' = [req EXCEPT ![p] = Reply(req[p], "Error")]
            /\ UNCHANGED carts
       ELSE /\ carts' = [carts EXCEPT ![req[p].user] =
                           [exists |-> TRUE, items |-> Append(@.items, req[p].book)]]
            /\ req' = [req EXCEPT ![p] = Reply(req[p], "ok")]
    /\ UNCHANGED <<copies, loans, reservations, now, copyLock, cartLock, sweeper>>
    /\ UNCHANGED <<ops, serial, books>>

\* ---------------------------------------------------------- checkout_cart
\* Variant of the emptiness test that only looks for the cart row.
CartIsMissing(u) == ~carts[u].exists

\* cart.py checkout_cart: SELECT the cart FOR UPDATE with its items (lines
\* 298-311).  The locking read waits while another transaction holds the row.
CartIsEmpty(u) == ~carts[u].exists \/ carts[u].items = <<>>

\* lines 305-311: the cart as the locking read returns it.
LoadCart(p, u, w, due) ==
    LET r == [Idle EXCEPT !.op = "checkout_cart", !.user = u, !.waited = w,
                          !.due = IF due = NULL THEN InTwoWeeks ELSE due] IN
    IF CartIsEmpty(u)
    THEN /\ req' = [req EXCEPT ![p] = Reply(r, "EmptyCart")]
         /\ UNCHANGED cartLock
    ELSE /\ req' = [req EXCEPT ![p] = [r EXCEPT !.pc = "items", !.items = carts[u].items]]
         /\ cartLock' = [cartLock EXCEPT ![u] = p]

checkout_load(p, u, due) ==
    /\ CanStart(p)
    /\ Len(loans) + Len(carts[u].items) <= MaxLoans
    /\ IF CartUnlockedFor(p, u)
       THEN LoadCart(p, u, FALSE, due)
       ELSE /\ req' = [req EXCEPT ![p] = [Idle EXCEPT !.op = "checkout_cart", !.user = u,
                                                      !.pc = "cartwait", !.waited = TRUE,
                                                      !.due = due]]
            /\ UNCHANGED cartLock
    /\ UNCHANGED <<copies, loans, reservations, carts, now, copyLock, sweeper>>
    /\ ops' = ops - 1 /\ UNCHANGED <<serial, books>>

\* The cart's row lock is released: the locking read returns the cart as it
\* is committed now.
checkout_load_wake(p) ==
    /\ req[p].op = "checkout_cart" /\ req[p].pc = "cartwait"
    /\ cartLock[req[p].user] = NoHolder
    /\ LoadCart(p, req[p].user, TRUE, req[p].due)
    /\ UNCHANGED <<copies, loans, reservations, carts, now, copyLock, sweeper>>
    /\ UNCHANGED <<ops, serial, books>>

\* The copies the SELECT of lines 324-335 examines for the current item: the
\* AVAILABLE copies of the book when the statement starts, or what is left of
\* them after a wait.
Candidates(p) ==
    IF req[p].pc = "items" THEN AvailableCopies(Head(req[p].items)) ELSE req[p].cands

\* lines 349-364: the record to insert and the copy to set BORROWED.
Acquire(p, c) == [req[p] EXCEPT !.pc = "items", !.items = Tail(@), !.cands = {},
                                !.copy = "-", !.acquired = Append(@, c)]

\* lines 338-347: no copy, the book is reported and the loop goes on.
NoCopy(p) == [req[p] EXCEPT !.pc = "items", !.items = Tail(@), !.cands = {},
                            !.copy = "-", !.failed = Append(@, Head(req[p].items))]

\* After a row is examined and found no longer AVAILABLE the scan goes on.
Skip(p, cs) == IF cs = {} THEN NoCopy(p)
               ELSE [req[p] EXCEPT !.pc = "scan", !.cands = cs, !.copy = "-"]

\* cart.py checkout_cart, one cart item (lines 320-364): SELECT ... WHERE
\* book_id = :b AND status = AVAILABLE LIMIT 1 FOR UPDATE.  The row the scan
\* reaches is locked if it is free and still AVAILABLE; the statement waits on
\* a row locked by another transaction.
checkout_item(p, c) ==
    /\ req[p].op = "checkout_cart" /\ req[p].pc \in {"items", "scan"}
    /\ req[p].items # <<>>
    /\ c \in Candidates(p)
    /\ IF ~CopyUnlockedFor(p, c)
       THEN /\ req' = [req EXCEPT ![p] = [@ EXCEPT !.pc = "wait", !.copy = c,
                                                    !.cands = Candidates(p),
                                                    !.waited = TRUE]]
            /\ UNCHANGED copyLock
       ELSE IF copies[c] = "AVAILABLE"
       THEN /\ req' = [req EXCEPT ![p] = Acquire(p, c)]
            /\ copyLock' = [copyLock EXCEPT ![c] = p]
       ELSE /\ req' = [req EXCEPT ![p] = Skip(p, Candidates(p) \ {c})]
            /\ UNCHANGED copyLock
    /\ UNCHANGED <<copies, loans, reservations, carts, now, cartLock, sweeper>>
    /\ UNCHANGED <<ops, serial, books>>

\* The statement finds no AVAILABLE copy of the book.
checkout_no_copy(p) ==
    /\ req[p].op = "checkout_cart" /\ req[p].pc = "items"
    /\ req[p].items # <<>>
    /\ Candidates(p) = {}
    /\ req' = [req EXCEPT ![p] = NoCopy(p)]
    /\ UNCHANGED <<copies, loans, reservations, carts, now, copyLock, cartLock, sweeper>>
    /\ UNCHANGED <<ops, serial, books>>

\* The row lock the statement waited for is released: the row is examined
\* again as committed.
checkout_wake(p) ==
    /\ req[p].op = "checkout_cart" /\ req[p].pc = "wait"
    /\ copyLock[req[p].copy] = NoHolder
    /\ IF copies[req[p].copy] = "AVAILABLE"
       THEN /\ req' = [req EXCEPT ![p] = Acquire(p, req[p].copy)]
            /\ copyLock' = [copyLock EXCEPT ![req[p].copy] = p]
       ELSE /\ req' = [req EXCEPT ![p] = Skip(p, req[p].cands \ {req[p].copy})]
            /\ UNCHANGED copyLock
    /\ UNCHANGED <<copies, loans, reservations, carts, now, cartLock, sweeper>>
    /\ UNCHANGED <<ops, serial, books>>

Range(s) == {s[k] : k \in 1..Len(s)}

ReleaseLocks(p) ==
    /\ copyLock' = [c \in CopyIds |-> IF copyLock[c] = p THEN NoHolder ELSE copyLock[c]]
    /\ cartLock' = [u \in Users |-> IF cartLock[u] = p THEN NoHolder ELSE cartLock[u]]

\* Variant that records the checkout as an immediate loan.
CheckoutLoanActive(c, u, due) == NewLoan(c, u, "ACTIVE", due)

\* cart.py checkout_cart lines 349-355: the record of a cart-originated hold.
CheckoutLoan(c, u, due) == NewLoan(c, u, "PENDING", due)

\* Variant of the failure path without db.rollback(): the records and the copy
\* updates made for the other items are committed.
FailWithoutRollback(p) ==
    /\ req' = [req EXCEPT ![p] =
                 [Reply(req[p], "Unavailable") EXCEPT !.failed = req[p].failed]]
    /\ loans' = loans \o [k \in 1..Len(req[p].acquired) |->
                            NewLoan(req[p].acquired[k], req[p].user, "PENDING", req[p].due)]
    /\ copies' = [c \in CopyIds |->
                    IF c \in Range(req[p].acquired) THEN "BORROWED" ELSE copies[c]]
    /\ UNCHANGED carts

\* cart.py checkout_cart lines 376-385: a book failed, db.rollback() discards
\* the records and the copy updates of this call.
RollbackCheckout(p) ==
    /\ req' = [req EXCEPT ![p] =
                 [Reply(req[p], "Unavailable") EXCEPT !.failed = req[p].failed]]
    /\ UNCHANGED <<copies, loans, carts>>

\* cart.py checkout_cart lines 387-396: DELETE the cart's items and commit the
\* PENDING records and the BORROWED copies.
CommitCheckout(p) ==
    /\ loans' = loans \o [k \in 1..Len(req[p].acquired) |->
                            CheckoutLoan(req[p].acquired[k], req[p].user, req[p].due)]
    /\ copies' = [c \in CopyIds |->
                    IF c \in Range(req[p].acquired) THEN "BORROWED" ELSE copies[c]]
    /\ carts' = [carts EXCEPT ![req[p].user].items = <<>>]
    /\ req' = [req EXCEPT ![p] =
                 [Reply(req[p], "ok") EXCEPT
                    !.created = (Len(loans) + 1)..(Len(loans) + Len(req[p].acquired))]]

\* cart.py checkout_cart, after the loop (lines 376-396).  Either way the
\* transaction ends and its row locks are released.
checkout_finish(p) ==
    /\ req[p].op = "checkout_cart" /\ req[p].pc = "items"
    /\ req[p].items = <<>>
    /\ IF req[p].failed # <<>> THEN RollbackCheckout(p) ELSE CommitCheckout(p)
    /\ ReleaseLocks(p)
    /\ UNCHANGED <<reservations, now, sweeper>>
    /\ UNCHANGED <<ops, serial, books>>

\* Two checkouts each wait for a row the other has locked: the database ends
\* one of them with a deadlock error, and its transaction is rolled back.
checkout_deadlock(p) ==
    /\ req[p].op = "checkout_cart" /\ req[p].pc = "wait"
    /\ \E q \in Procs \ {p} :
         /\ copyLock[req[p].copy] = q
         /\ req[q].pc = "wait" /\ copyLock[req[q].copy] = p
    /\ req' = [req EXCEPT ![p] = Reply(req[p], "Error")]
    /\ ReleaseLocks(p)
    /\ UNCHANGED <<copies, loans, reservations, carts, now, sweeper>>
    /\ UNCHANGED <<ops, serial, books>>

\* ------------------------------------------------------ create_reservation
\* reservations.py create_reservation: the reads (lines 39-78).
create_reservation_read(p, u, b) ==
    /\ CanStart(p)
    /\ Len(reservations) < MaxReservations
    /\ LET r == [Idle EXCEPT !.op = "create_reservation", !.user = u, !.book = b]
           mine == {i \in ResIds : /\ reservations[i].user = u /\ reservations[i].book = b
                                    /\ reservations[i].status = "PENDING"}
       IN req' = [req EXCEPT ![p] =
                    IF b \notin books THEN Reply(r, "NotFound")
                    ELSE IF Cardinality(mine) > 1 THEN Reply(r, "Error")
                    ELSE IF mine # {} THEN Reply(r, "DuplicateReservation")
                    ELSE IF AvailableCopies(b) # {} THEN Reply(r, "CopyAvailable")
                    ELSE [r EXCEPT !.pc = "commit"]]
    /\ UNCHANGED <<copies, loans, reservations, carts, now, copyLock, cartLock, sweeper>>
    /\ ops' = ops - 1 /\ UNCHANGED <<serial, books>>

\* reservations.py create_reservation: the commit (lines 80-93).
create_reservation_commit(p) ==
    /\ req[p].op = "create_reservation" /\ req[p].pc = "commit"
    /\ Len(reservations) < MaxReservations
    /\ reservations' = Append(reservations,
                              [user |-> req[p].user, book |-> req[p].book,
                               status |-> "PENDING", reserved_at |-> now,
                               expires_at |-> now + RESERVATION_TTL_HOURS,
                               fulfilled_at |-> NULL])
    /\ req' = [req EXCEPT ![p] = [Reply(req[p], "ok") EXCEPT !.resv = Len(reservations) + 1]]
    /\ UNCHANGED <<copies, loans, carts, now, copyLock, cartLock, sweeper>>
    /\ UNCHANGED <<ops, serial, books>>

\* ------------------------------------------------------ cancel_reservation
\* Variant of the reads without the ownership check.
cancel_reservation_by_anyone(p, u, i) ==
    /\ CanStart(p)
    /\ LET r == [Idle EXCEPT !.op = "cancel_reservation", !.user = u, !.resv = i] IN
       req' = [req EXCEPT ![p] =
                 IF i \notin ResRows THEN Reply(r, "NotFound")
                 ELSE IF reservations[i].status # "PENDING"
                      THEN [Reply(r, "InvalidState") EXCEPT !.resv = i]
                 ELSE [r EXCEPT !.pc = "commit"]]
    /\ UNCHANGED <<copies, loans, reservations, carts, now, copyLock, cartLock, sweeper>>
    /\ ops' = ops - 1 /\ UNCHANGED <<serial, books>>

\* reservations.py cancel_reservation: the reads (lines 150-172).
cancel_reservation_read(p, u, i) ==
    /\ CanStart(p)
    /\ LET r == [Idle EXCEPT !.op = "cancel_reservation", !.user = u, !.resv = i] IN
       req' = [req EXCEPT ![p] =
                 IF i \notin ResRows THEN Reply(r, "NotFound")
                 ELSE IF reservations[i].user # u THEN [Reply(r, "Forbidden") EXCEPT !.resv = i]
                 ELSE IF reservations[i].status # "PENDING"
                      THEN [Reply(r, "InvalidState") EXCEPT !.resv = i]
                 ELSE [r EXCEPT !.pc = "commit"]]
    /\ UNCHANGED <<copies, loans, reservations, carts, now, copyLock, cartLock, sweeper>>
    /\ ops' = ops - 1 /\ UNCHANGED <<serial, books>>

\* reservations.py cancel_reservation: the commit (lines 174-178).
cancel_reservation_commit(p) ==
    /\ req[p].op = "cancel_reservation" /\ req[p].pc = "commit"
    /\ reservations' = [reservations EXCEPT ![req[p].resv].status = "CANCELLED"]
    /\ req' = [req EXCEPT ![p] = [Reply(req[p], "ok") EXCEPT !.resv = req[p].resv]]
    /\ UNCHANGED <<copies, loans, carts, now, copyLock, cartLock, sweeper>>
    /\ UNCHANGED <<ops, serial, books>>

\* ----------------------------------------------------- fulfill_reservation
\* reservations.py fulfill_reservation: the reads (lines 255-273).  seen keeps
\* what is_expired answered.
fulfill_reservation_read(p, i) ==
    /\ CanStart(p)
    /\ LET r == [Idle EXCEPT !.op = "fulfill_reservation", !.resv = i] IN
       req' = [req EXCEPT ![p] =
                 IF i \notin ResRows THEN Reply(r, "NotFound")
                 ELSE IF reservations[i].status # "PENDING"
                      THEN [Reply(r, "InvalidState") EXCEPT !.resv = i]
                 ELSE [r EXCEPT !.pc = "commit",
                                !.seen = IF is_expired(reservations[i])
                                         THEN "expired" ELSE "live"]]
    /\ UNCHANGED <<copies, loans, reservations, carts, now, copyLock, cartLock, sweeper>>
    /\ ops' = ops - 1 /\ UNCHANGED <<serial, books>>

\* reservations.py fulfill_reservation: the commit (lines 275-289): EXPIRED and
\* a failure for an expired reservation, FULFILLED with fulfilled_at otherwise.
fulfill_reservation_commit(p) ==
    /\ req[p].op = "fulfill_reservation" /\ req[p].pc = "commit"
    /\ IF req[p].seen = "expired"
       THEN /\ reservations' = [reservations EXCEPT ![req[p].resv].status = "EXPIRED"]
            /\ req' = [req EXCEPT ![p] = [Reply(req[p], "Expired") EXCEPT !.resv = req[p].resv]]
       ELSE /\ reservations' = [reservations EXCEPT ![req[p].resv].status = "FULFILLED",
                                                    ![req[p].resv].fulfilled_at = now]
            /\ req' = [req EXCEPT ![p] = [Reply(req[p], "ok") EXCEPT !.resv = req[p].resv]]
    /\ UNCHANGED <<copies, loans, carts, now, copyLock, cartLock, sweeper>>
    /\ UNCHANGED <<ops, serial, books>>

\* ------------------------------------------------------------------ clock
\* Time passes between requests, a day at a time.
Tick ==
    /\ Quiet
    /\ now + 24 <= MaxDays * 24
    /\ now' = now + 24
    /\ UNCHANGED <<copies, loans, reservations, carts, copyLock, cartLock, req, sweeper, ops, serial>>
    /\ UNCHANGED books

\* ------------------------------------------------------------------- init
\* Nobody has a cart yet.
NoCarts == {[u \in Users |-> [exists |-> FALSE, items |-> <<>>]]}

\* Carts as add_to_cart fills them: a cart holds no book twice.
FilledCarts ==
    LET contents == {<<>>, <<"b1">>, <<"b2">>, <<"b1", "b2">>, <<"b2", "b1">>}
    IN [Users -> {[exists |-> its # <<>>, items |-> its] : its \in contents}]

\* No request in flight, no lock held, no borrow record; the catalog's copies
\* are AVAILABLE, as create_book_copy makes them (book_copies.py lines 52-56).
InitWith(catalog, cartRows, budget, oneAtATime) ==
    /\ copies = [c \in CopyIds |-> IF c \in catalog THEN "AVAILABLE" ELSE "DELETED"]
    /\ loans = <<>>
    /\ reservations = <<>>
    /\ carts \in cartRows
    /\ now = 0
    /\ copyLock = [c \in CopyIds |-> NoHolder]
    /\ cartLock = [u \in Users |-> NoHolder]
    /\ req = [p \in Procs |-> Idle]
    /\ sweeper = SweeperIdle
    /\ ops = budget
    /\ serial = oneAtATime
    /\ books = Books

\* The library holds one copy of each book.
Init == InitWith({"c1", "c3"}, NoCarts, MaxOps, TRUE)

\* ---------------------------------------------------------- specifications
\* Lending, one request at a time: each handler runs alone, from its first
\* read to its commit.  No time passes and nobody reserves.
Next ==
    \/ \E u \in Users, c \in CopyIds : borrow_book_read("p1", u, c, InTwoWeeks)
    \/ borrow_book_commit("p1")
    \/ \E u \in Users, c \in CopyIds : return_book_read("p1", u, c)
    \/ return_book_commit("p1")
    \/ \E i \in 1..MaxLoans : confirm_pickup_read("p1", i)
    \/ confirm_pickup_commit("p1")
    \/ \E i \in 1..MaxLoans : borrowing_return_book_read("p1", i)
    \/ borrowing_return_book_commit("p1")
    \/ \E c \in CopyIds, st \in {"AVAILABLE", "BORROWED", "LOST"} :
         update_book_copy("p1", c, st)
    \/ \E c \in CopyIds : delete_book_copy("p1", c)
    \/ \E u \in Users, b \in Books : add_to_cart_read("p1", u, b)
    \/ add_to_cart_commit("p1")
    \/ \E u \in Users : checkout_load("p1", u, NULL)
    \/ \E c \in CopyIds : checkout_item("p1", c)
    \/ checkout_no_copy("p1")
    \/ checkout_finish("p1")

Spec == Init /\ [][Next]_vars

\* Reservations, one request at a time: readers borrow, reserve the book that
\* is out, and return it by copy id or by record id, while the days pass.
InitReserve == InitWith({"c1", "c3"}, NoCarts, MaxReserveOps, TRUE)

NextReserve ==
    \/ \E u \in Users, c \in CopyIds : borrow_book_read("p1", u, c, InTwoWeeks)
    \/ borrow_book_commit("p1")
    \/ \E u \in Users, b \in BookIds : create_reservation_read("p1", u, b)
    \/ create_reservation_commit("p1")
    \/ \E u \in Users, i \in 1..MaxReservations : cancel_reservation_read("p1", u, i)
    \/ cancel_reservation_commit("p1")
    \/ \E i \in 1..MaxReservations : fulfill_reservation_read("p1", i)
    \/ fulfill_reservation_commit("p1")
    \/ \E u \in Users, c \in CopyIds : return_book_read("p1", u, c)
    \/ return_book_commit("p1")
    \/ \E i \in 1..MaxLoans : borrowing_return_book_read("p1", i)
    \/ borrowing_return_book_commit("p1")
    \/ Tick

SpecReserve == InitReserve /\ [][NextReserve]_vars

\* Pickups, one request at a time: readers check out the carts they have
\* filled, librarians confirm pickups and take returns by record id, and the
\* scheduler's sweep runs, while the days pass.
InitPickup == InitWith({"c1", "c3"}, FilledCarts, MaxPickupOps, TRUE)

NextPickup ==
    \/ \E u \in Users : checkout_load("p1", u, NULL)
    \/ \E c \in CopyIds : checkout_item("p1", c)
    \/ checkout_no_copy("p1")
    \/ checkout_finish("p1")
    \/ \E i \in 1..MaxLoans : confirm_pickup_read("p1", i)
    \/ confirm_pickup_commit("p1")
    \/ \E i \in 1..MaxLoans : borrowing_return_book_read("p1", i)
    \/ borrowing_return_book_commit("p1")
    \/ sweep_read
    \/ sweep_commit
    \/ Tick

SpecPickup == InitPickup /\ [][NextPickup]_vars

\* Overlapping reservations: two connections borrow copies and reserve books,
\* their statements interleaved by the database.
InitReserveOverlap == InitWith({"c1", "c3"}, NoCarts, MaxReserveOverlapOps, FALSE)

NextReserveOverlap ==
    \E p \in Procs :
        \/ \E u \in Users, c \in CopyIds : borrow_book_read(p, u, c, InTwoWeeks)
        \/ borrow_book_commit(p)
        \/ \E u \in Users, b \in Books : create_reservation_read(p, u, b)
        \/ create_reservation_commit(p)

SpecReserveOverlap == InitReserveOverlap /\ [][NextReserveOverlap]_vars

\* Overlapping requests: two connections borrow copies and check out the carts
\* their users have filled, their statements interleaved by the database.
InitOverlap == InitWith(CopyIds, FilledCarts, MaxOverlapOps, FALSE)

NextOverlap ==
    \E p \in Procs :
        \/ \E u \in Users, c \in CopyIds : borrow_book_read(p, u, c, InTwoWeeks)
        \/ borrow_book_commit(p)
        \/ \E u \in Users : checkout_load(p, u, NULL)
        \/ checkout_load_wake(p)
        \/ \E c \in CopyIds : checkout_item(p, c)
        \/ checkout_no_copy(p)
        \/ checkout_wake(p)
        \/ checkout_deadlock(p)
        \/ checkout_finish(p)

SpecOverlap == InitOverlap /\ [][NextOverlap]_vars

\* The sweep beside the desk: a reader checks out a filled cart on connection
\* p1, a librarian confirms pickups and takes returns by record id on
\* connection p2, and the scheduler's trigger fires, their statements
\* interleaved by the database.  The days pass while nothing is in flight.
InitSweepOverlap == InitWith({"c1", "c3"}, FilledCarts, MaxSweepOverlapOps, FALSE)

NextSweepOverlap ==
    \/ \E u \in Users : checkout_load("p1", u, NULL)
    \/ \E c \in CopyIds : checkout_item("p1", c)
    \/ checkout_no_copy("p1")
    \/ checkout_finish("p1")
    \/ \E i \in 1..MaxLoans : confirm_pickup_read("p2", i)
    \/ confirm_pickup_commit("p2")
    \/ \E i \in 1..MaxLoans : borrowing_return_book_read("p2", i)
    \/ borrowing_return_book_commit("p2")
    \/ sweep_read
    \/ sweep_commit
    \/ sweep_skip
    \/ Tick

SpecSweepOverlap == InitSweepOverlap /\ [][NextSweepOverlap]_vars

\* The catalog, one request at a time: readers borrow and return copies and
\* fill their carts, librarians delete copies and books.
InitCatalog == InitWith({"c1", "c3"}, NoCarts, MaxCatalogOps, TRUE)

NextCatalog ==
    \/ \E u \in Users, c \in CopyIds : borrow_book_read("p1", u, c, InTwoWeeks)
    \/ borrow_book_commit("p1")
    \/ \E u \in Users, c \in CopyIds : return_book_read("p1", u, c)
    \/ return_book_commit("p1")
    \/ \E u \in Users, b \in Books : add_to_cart_read("p1", u, b)
    \/ add_to_cart_commit("p1")
    \/ \E c \in CopyIds : delete_book_copy("p1", c)
    \/ \E b \in BookIds : delete_book("p1", b)

SpecCatalog == InitCatalog /\ [][NextCatalog]_vars

\* The due dates a request can carry: midnight of each day of the model.
DueDates == {24 * d : d \in 0..MaxDays}

\* Due dates, one request at a time: readers borrow copies and check out the
\* carts they have filled, with the due date of their choice or, at the
\* checkout, with none, while the days pass.
InitDue == InitWith({"c1", "c3"}, FilledCarts, MaxDueOps, TRUE)

NextDue ==
    \/ \E u \in Users, c \in CopyIds, due \in DueDates : borrow_book_read("p1", u, c, due)
    \/ borrow_book_commit("p1")
    \/ \E u \in Users, due \in DueDates \cup {NULL} : checkout_load("p1", u, due)
    \/ \E c \in CopyIds : checkout_item("p1", c)
    \/ checkout_no_copy("p1")
    \/ checkout_finish("p1")
    \/ Tick

SpecDue == InitDue /\ [][NextDue]_vars

\* The recurring sweep: readers check out the carts they have filled and
\* librarians confirm pickups, one request at a time, while the days pass and
\* the interval trigger fires.  A request that has started runs to its end,
\* the trigger keeps firing and a run of the sweep terminates.
InitSweepLive == InitWith({"c1", "c3"}, FilledCarts, MaxLiveOps, TRUE)

NextSweepLive ==
    \/ \E u \in Users : checkout_load("p1", u, NULL)
    \/ \E c \in CopyIds : checkout_item("p1", c)
    \/ checkout_no_copy("p1")
    \/ checkout_finish("p1")
    \/ \E i \in 1..MaxLoans : confirm_pickup_read("p1", i)
    \/ confirm_pickup_commit("p1")
    \/ sweep_tick
    \/ sweep_commit
    \/ Tick

SpecSweepLive ==
    /\ InitSweepLive /\ [][NextSweepLive]_vars
    /\ WF_vars(\E c \in CopyIds : checkout_item("p1", c))
    /\ WF_vars(checkout_no_copy("p1"))
    /\ WF_vars(checkout_finish("p1"))
    /\ WF_vars(confirm_pickup_commit("p1"))
    /\ WF_vars(sweep_tick)
    /\ WF_vars(sweep_commit)

\* Overlapping requests on a reservation: readers borrow, reserve and cancel
\* on connection p1 while, on connection p2, a librarian fulfils reservations
\* and readers return copies, their statements interleaved by the database.
InitReserveRace == InitWith({"c1", "c3"}, NoCarts, MaxReserveRaceOps, FALSE)

NextReserveRace ==
    \/ \E u \in Users, c \in CopyIds : borrow_book_read("p1", u, c, InTwoWeeks)
    \/ borrow_book_commit("p1")
    \/ \E u \in Users, b \in Books : create_reservation_read("p1", u, b)
    \/ create_reservation_commit("p1")
    \/ \E u \in Users, i \in 1..MaxReservations : cancel_reservation_read("p1", u, i)
    \/ cancel_reservation_commit("p1")
    \/ \E i \in 1..MaxReservations : fulfill_reservation_read("p2", i)
    \/ fulfill_reservation_commit("p2")
    \/ \E u \in Users, c \in CopyIds : return_book_read("p2", u, c)
    \/ return_book_commit("p2")

SpecReserveRace == InitReserveRace /\ [][NextReserveRace]_vars

\* Overlapping requests on a cart: readers add books to the carts they have
\* on two connections while a checkout runs on connection p1, their
\* statements interleaved by the database.
InitCartRace == InitWith({"c1", "c3"}, FilledCarts, MaxCartRaceOps, FALSE)

NextCartRace ==
    \/ \E p \in Procs, u \in Users, b \in Books : add_to_cart_read(p, u, b)
    \/ \E p \in Procs : add_to_cart_commit(p)
    \/ \E u \in Users : checkout_load("p1", u, NULL)
    \/ \E c \in CopyIds : checkout_item("p1", c)
    \/ checkout_no_copy("p1")
    \/ checkout_finish("p1")

SpecCartRace == InitCartRace /\ [][NextCartRace]_vars

\* Reservations beside the scheduler: readers check out the carts they have
\* filled and reserve the books that are out, one request at a time, while
\* the days pass and the scheduler runs its job on the borrow records, the
\* only job it has beside the publishing of news.
InitReserveLive == InitWith({"c1", "c3"}, FilledCarts, MaxReserveLiveOps, TRUE)

NextReserveLive ==
    \/ \E u \in Users : checkout_load("p1", u, NULL)
    \/ \E c \in CopyIds : checkout_item("p1", c)
    \/ checkout_no_copy("p1")
    \/ checkout_finish("p1")
    \/ \E u \in Users, b \in Books : create_reservation_read("p1", u, b)
    \/ create_reservation_commit("p1")
    \/ sweep_tick
    \/ sweep_commit
    \/ Tick

SpecReserveLive ==
    /\ InitReserveLive /\ [][NextReserveLive]_vars
    /\ WF_vars(\E c \in CopyIds : checkout_item("p1", c))
    /\ WF_vars(checkout_no_copy("p1"))
    /\ WF_vars(checkout_finish("p1"))
    /\ WF_vars(create_reservation_commit("p1"))
    /\ WF_vars(sweep_tick)
    /\ WF_vars(sweep_commit)
    /\ WF_vars(Tick)

\* ------------------------------------------------------------------ claims
\* C1: every copy is BORROWED if and only if exactly one borrow record of it
\* is PENDING or ACTIVE.
C1_BorrowedIffOneOpenLoan ==
    \A c \in CopyIds :
        CopyExists(c) => (copies[c] = "BORROWED" <=> Cardinality(OpenLoans(c)) = 1)

\* The checkout of process p is at the end of its loop over the cart items.
AtCheckoutEnd(p) ==
    req[p].op = "checkout_cart" /\ req[p].pc = "items" /\ req[p].items = <<>>

\* The books of u's cart that have no AVAILABLE copy.
Unavailable(u) == {b \in Range(carts[u].items) : AvailableCopies(b) = {}}

\* C4: a checkout whose cart holds a book without an AVAILABLE copy ends in
\* the failure that lists exactly the books it could not acquire, and no step
\* of it changes a copy, a borrow record or the cart, nor keeps a copy locked.
C4_CheckoutAllOrNothing ==
    [][\A p \in Procs :
         /\ (req[p].op = "checkout_cart" /\ ~Free(p) /\ Unavailable(req[p].user) # {})
               => UNCHANGED <<copies, loans, carts>>
         /\ (AtCheckoutEnd(p) /\ Unavailable(req[p].user) # {} /\ Free(p)')
               => /\ req'[p].result = "Unavailable"
                  /\ Range(req'[p].failed) = Unavailable(req[p].user)
                  /\ \A c \in CopyIds : copyLock'[c] = NoHolder
                  /\ loans' = loans /\ copies' = copies /\ carts' = carts]_vars

\* C4 witness: a failed checkout of a two-book cart, one book of which had an
\* AVAILABLE copy; that copy is AVAILABLE and unlocked after the failure.
C4_Witness ==
    /\ req["p1"].op = "checkout_cart" /\ req["p1"].result = "Unavailable"
    /\ Len(carts[req["p1"].user].items) = 2
    /\ Len(req["p1"].failed) = 1
    /\ \E c \in CopyIds : /\ BookOf(c) \in Range(carts[req["p1"].user].items)
                          /\ copies[c] = "AVAILABLE" /\ copyLock[c] = NoHolder
    /\ \A i \in LoanIds : loans[i].status # "PENDING"

\* C5: a checkout whose cart books all have an AVAILABLE copy creates one
\* PENDING record per cart item, of the caller, on distinct copies of the
\* items' books, which go from AVAILABLE to BORROWED; the cart is emptied and
\* no failure is reported.
C5_CheckoutSuccess ==
    [][\A p \in Procs :
         (AtCheckoutEnd(p) /\ Unavailable(req[p].user) = {} /\ Free(p)') =>
            LET u == req[p].user
                n == Len(carts[u].items)
            IN /\ req'[p].result = "ok" /\ req'[p].failed = <<>>
               /\ Len(loans') = Len(loans) + n
               /\ req'[p].created = (Len(loans) + 1)..(Len(loans) + n)
               /\ \A k \in 1..n :
                    LET l == loans'[Len(loans) + k] IN
                    /\ l.status = "PENDING" /\ l.user = u
                    /\ BookOf(l.copy) = carts[u].items[k]
                    /\ copies[l.copy] = "AVAILABLE" /\ copies'[l.copy] = "BORROWED"
                    /\ \A j \in 1..n : j # k => loans'[Len(loans) + j].copy # l.copy
               /\ \A i \in LoanIds : loans'[i] = loans[i]
               /\ \A c \in CopyIds :
                    (\A k \in 1..n : loans'[Len(loans) + k].copy # c) => copies'[c] = copies[c]
               /\ carts'[u].items = <<>>]_vars

\* C5 witness: a checkout of a two-book cart has succeeded.
C5_Witness ==
    /\ req["p1"].op = "checkout_cart" /\ req["p1"].result = "ok"
    /\ Cardinality(req["p1"].created) = 2
    /\ \A i \in req["p1"].created : loans[i].status = "PENDING"

\* Process p starts checkout_cart for user u in this step.
StartsCheckout(p, u) ==
    /\ Free(p) /\ ops' = ops - 1
    /\ req'[p].op = "checkout_cart" /\ req'[p].user = u

\* C6: checkout_cart on a missing or empty cart, and so a checkout that follows
\* the same user's successful checkout, fails with EmptyCart and changes
\* nothing.
C6_EmptyCart ==
    [][\A p \in Procs, u \in Users :
         (/\ StartsCheckout(p, u)
          /\ \/ CartIsEmpty(u)
             \/ req[p].op = "checkout_cart" /\ req[p].result = "ok" /\ req[p].user = u)
         => /\ req'[p].result = "EmptyCart"
            /\ UNCHANGED <<copies, loans, carts, reservations, copyLock, cartLock>>]_vars

\* C6 witness: EmptyCart answered to the user whose earlier checkout created
\* PENDING records.
C6_Witness ==
    /\ req["p1"].op = "checkout_cart" /\ req["p1"].result = "EmptyCart"
    /\ carts[req["p1"].user].exists
    /\ \E i \in LoanIds : loans[i].status = "PENDING" /\ loans[i].user = req["p1"].user

\* ------------------------------------------ claims on overlapping requests
\* C2: no copy ever has two borrow records that are PENDING or ACTIVE at the
\* same time, however borrow_book and checkout_cart requests interleave.
C2_NoDoubleLend ==
    \A c \in CopyIds : Cardinality(OpenLoans(c)) <= 1

InCheckout(p) == req[p].op = "checkout_cart" /\ ~Free(p)

\* The checkouts that have acquired copy c and not finished.
CopyHeldBy(c) == {p \in Procs : InCheckout(p) /\ c \in Range(req[p].acquired)}

\* Checkout p of one user has acquired c, the only AVAILABLE copy of its book,
\* and checkout q of another user waits for c's row lock.
Contended(p, q, c) ==
    /\ p # q /\ InCheckout(p) /\ InCheckout(q) /\ req[p].user # req[q].user
    /\ copyLock[c] = p /\ c \in Range(req[p].acquired)
    /\ req[q].pc = "wait" /\ req[q].copy = c
    /\ AvailableCopies(BookOf(c)) = {c}

C3_Exclusive ==
    \A c \in CopyIds : Cardinality(CopyHeldBy(c)) <= 1

C3_Blocks ==
    \A p, q \in Procs, c \in CopyIds :
        Contended(p, q, c) =>
           /\ req'[q] = req[q] \/ req'[q].result = "Error"
           /\ (Free(p)' /\ req'[p].result = "ok") =>
                 /\ copies'[c] = "BORROWED"
                 /\ \E i \in req'[p].created :
                      loans'[i].copy = c /\ loans'[i].user = req[p].user

C3_Reevaluates ==
    \A q \in Procs :
        (/\ InCheckout(q) /\ req[q].pc = "wait" /\ req[q].cands = {req[q].copy}
         /\ copies[req[q].copy] # "AVAILABLE"
         /\ req'[q] # req[q] /\ req'[q].result # "Error")
        => /\ copyLock[req[q].copy] = NoHolder
           /\ req'[q].failed = Append(req[q].failed, BookOf(req[q].copy))
           /\ req'[q].acquired = req[q].acquired
           /\ copyLock' = copyLock

C3_Fails ==
    \A q \in Procs, b \in Books :
        (InCheckout(q) /\ b \in Range(req[q].failed) /\ req'[q] # req[q]) =>
           /\ b \in Range(req'[q].failed) \/ req'[q].result = "Error"
           /\ Free(q)' => /\ req'[q].result \in {"Unavailable", "Error"}
                          /\ loans' = loans /\ copies' = copies /\ carts' = carts

\* C3: of two checkouts of different users contending for the only AVAILABLE
\* copy of a book, at most one holds the copy at any time; the one that finds
\* the row locked waits until the holder's transaction ends; after the
\* holder's commit the copy is BORROWED under the holder's record, and the
\* waiter examines the row again, acquires nothing for the book, and ends
\* in the failure that lists the book, creating no record.
C3_OneAcquirer ==
    /\ []C3_Exclusive
    /\ [][C3_Blocks]_vars
    /\ [][C3_Reevaluates]_vars
    /\ [][C3_Fails]_vars

\* C3 witness: two checkouts of different users have ended; one created the
\* record of a copy, the other waited for a row lock and failed listing that
\* copy's book, of which no copy is AVAILABLE.
C3_Witness ==
    \E p, q \in Procs :
        /\ req[p].op = "checkout_cart" /\ req[p].result = "ok"
        /\ req[q].op = "checkout_cart" /\ req[q].result = "Unavailable" /\ req[q].waited
        /\ req[p].user # req[q].user
        /\ \E i \in req[p].created :
             /\ BookOf(loans[i].copy) \in Range(req[q].failed)
             /\ \A j \in LoanIds \ {i} : BookOf(loans[j].copy) # BookOf(loans[i].copy)

\* Process p's checkout has loaded its cart and holds the cart's row lock.
PastCartLoad(p) == InCheckout(p) /\ req[p].pc # "cartwait"

C7_Exclusive ==
    \A p, q \in Procs :
        (p # q /\ PastCartLoad(p) /\ PastCartLoad(q)) => req[p].user # req[q].user

C7_Outcome ==
    \A p, q \in Procs :
        (/\ p # q /\ req[p].op = "checkout_cart" /\ req[q].op = "checkout_cart"
         /\ req[p].user = req[q].user
         /\ req[p].result = "ok" /\ Free(q) /\ req[q].waited)
        => /\ req[q].result = "EmptyCart"
           /\ {i \in LoanIds : loans[i].user = req[p].user /\ loans[i].status = "PENDING"}
                 = req[p].created

C7_Blocks ==
    \A p, q \in Procs :
        (p # q /\ InCheckout(q) /\ req[q].pc = "cartwait" /\ cartLock[req[q].user] = p) =>
           /\ req'[q] = req[q]
           /\ (Free(p)' /\ req'[p].result = "ok") =>
                 /\ Len(loans') = Len(loans) + Len(carts[req[q].user].items)
                 /\ carts'[req[q].user].items = <<>>

C7_SecondSeesEmptyCart ==
    \A q \in Procs :
        (/\ InCheckout(q) /\ req[q].pc = "cartwait" /\ req'[q] # req[q]
         /\ CartIsEmpty(req[q].user))
        => /\ cartLock[req[q].user] = NoHolder
           /\ req'[q].result = "EmptyCart"
           /\ UNCHANGED <<copies, loans, carts, copyLock, cartLock>>

\* C7: two checkouts of the same user are never both past the cart load; the
\* second waits for the cart's row lock as long as the first holds it; the
\* first's commit creates as many records as the cart has items and empties
\* the cart; the second then reads the empty cart and fails with EmptyCart,
\* changing nothing, so that the user's PENDING records are those of the first.
C7_SameUserCheckouts ==
    /\ []C7_Exclusive
    /\ []C7_Outcome
    /\ [][C7_Blocks]_vars
    /\ [][C7_SecondSeesEmptyCart]_vars

\* C7 witness: of two checkouts of one user's two-book cart, one created the
\* two records and the other waited for the cart and was answered EmptyCart.
C7_Witness ==
    \E p, q \in Procs :
        /\ req[p].op = "checkout_cart" /\ req[p].result = "ok"
        /\ req[q].op = "checkout_cart" /\ req[q].result = "EmptyCart" /\ req[q].waited
        /\ req[p].user = req[q].user
        /\ Cardinality(req[p].created) = 2
        /\ Len(loans) = 2

\* ------------------------------------------------- claims on reservations
\* Process p's return by copy id commits in this step.
ReturnCommits(p) ==
    req[p].op = "return_book" /\ req[p].pc = "commit" /\ req'[p].result = "ok"

\* Process p's return by record id commits in this step.
RecordReturnCommits(p) ==
    req[p].op = "borrowing_return_book" /\ req[p].pc = "commit" /\ req'[p].result = "ok"

PendingOf(b) == {i \in ResIds : reservations[i].book = b /\ reservations[i].status = "PENDING"}

\* The PENDING reservations of book b whose expires_at has not passed.
LivePending(b) == {i \in PendingOf(b) : ~is_expired(reservations[i])}

\* The reservations of book b that this step marks FULFILLED.
FulfilledNow(b) ==
    {i \in PendingOf(b) : reservations'[i].status = "FULFILLED"}

\* C8: with PENDING reservations of distinct reserved_at, a return by copy id
\* that finds a PENDING reservation that is not expired marks exactly the
\* oldest such reservation FULFILLED, with fulfilled_at set.
C8_FifoFulfilment ==
    [][\A p \in Procs :
         LET b == BookOf(req[p].copy)
             live == LivePending(b)
         IN (/\ ReturnCommits(p)
             /\ live # {}
             /\ \A i, j \in PendingOf(b) :
                  i # j => reservations[i].reserved_at # reservations[j].reserved_at)
            => \E f \in live :
                 /\ \A j \in live : reservations[f].reserved_at <= reservations[j].reserved_at
                 /\ FulfilledNow(b) = {f}
                 /\ reservations'[f].fulfilled_at = now]_vars

\* C9: a return by copy id that finds the oldest PENDING reservation of the
\* book expired marks that reservation EXPIRED.
C9_ExpiredHeadMarked ==
    [][\A p \in Procs :
         ReturnCommits(p) =>
            \A f \in FirstPending(BookOf(req[p].copy)) :
               is_expired(reservations[f]) => reservations'[f].status = "EXPIRED"]_vars

\* C10: a return that commits, by copy id or by record id, while the book has
\* a PENDING reservation that is not expired marks exactly one reservation of
\* the book FULFILLED.
C10_FulfilOnEveryReturn ==
    [][\A p \in Procs :
         LET b == BookOf(req[p].copy) IN
         ((ReturnCommits(p) \/ RecordReturnCommits(p)) /\ LivePending(b) # {})
            => Cardinality(FulfilledNow(b)) = 1]_vars

\* The reservations that this step marks FULFILLED.
BecomeFulfilled ==
    {i \in ResIds : reservations[i].status # "FULFILLED" /\ reservations'[i].status = "FULFILLED"}

C11_NoLoanNoHold ==
    BecomeFulfilled # {} =>
       /\ Len(loans') = Len(loans)
       /\ \A i \in LoanIds : loans'[i].status # loans[i].status => loans'[i].status = "RETURNED"
       /\ \A c \in CopyIds :
            \/ copies'[c] = copies[c]
            \/ \E p \in Procs : ReturnCommits(p) /\ req[p].copy = c
       /\ \A p \in Procs : ReturnCommits(p) => copies'[req[p].copy] = "AVAILABLE"

C11_StaysAvailable ==
    \A c \in CopyIds :
       (copies[c] = "AVAILABLE" /\ copies'[c] # "AVAILABLE") =>
          \E p \in Procs : /\ req[p].op \in {"borrow_book", "checkout_cart"}
                           /\ req'[p].result = "ok"
                           /\ \E i \in req'[p].created : loans'[i].copy = c

\* C11: a step that marks a reservation FULFILLED, in a return or in
\* fulfill_reservation, creates no borrow record and changes no copy but the
\* returned one, which becomes AVAILABLE; an AVAILABLE copy stops being
\* AVAILABLE only in the commit of a borrow or of a checkout that records it.
C11_FulfilmentHoldsNoCopy ==
    /\ [][C11_NoLoanNoHold]_vars
    /\ [][C11_StaysAvailable]_vars

\* C11 witness: a return has fulfilled a reservation; the book's copy is
\* AVAILABLE and every borrow record is RETURNED.
C11_Witness ==
    /\ req["p1"].op = "return_book" /\ req["p1"].result = "ok" /\ req["p1"].resv # 0
    /\ reservations[req["p1"].resv].status = "FULFILLED"
    /\ AvailableCopies(reservations[req["p1"].resv].book) # {}
    /\ \A j \in LoanIds : loans[j].status = "RETURNED"

\* C12: for every user and book at most one reservation is PENDING, also when
\* create_reservation requests overlap.
C12_OnePendingPerUserBook ==
    \A u \in Users, b \in Books :
        Cardinality({i \in PendingOf(b) : reservations[i].user = u}) <= 1

\* Process p starts create_reservation for user u and book b in this step.
StartsReservation(p, u, b) ==
    /\ Free(p) /\ ops' = ops - 1
    /\ req'[p].op = "create_reservation" /\ req'[p].user = u /\ req'[p].book = b

C13_Decision ==
    \A p \in Procs, u \in Users, b \in BookIds :
        StartsReservation(p, u, b) =>
           LET mine == {i \in ResIds : /\ reservations[i].user = u
                                       /\ reservations[i].book = b
                                       /\ reservations[i].status = "PENDING"}
               free == {c \in CopyIds : BookOf(c) = b /\ copies[c] = "AVAILABLE"}
           IN /\ req'[p].pc = "commit" <=> (b \in books /\ mine = {} /\ free = {})
              /\ req'[p].pc # "commit" => Free(p)' /\ req'[p].result # "ok"
              /\ (b \in books /\ mine # {}) => req'[p].result = "DuplicateReservation"
              /\ (b \in books /\ mine = {} /\ free # {}) => req'[p].result = "CopyAvailable"
              /\ UNCHANGED <<copies, loans, reservations, carts>>

C13_Insert ==
    \A p \in Procs :
        (req[p].op = "create_reservation" /\ req[p].pc = "commit" /\ req'[p] # req[p]) =>
           /\ req'[p].result = "ok"
           /\ reservations' =
                Append(reservations,
                       [user |-> req[p].user, book |-> req[p].book, status |-> "PENDING",
                        reserved_at |-> now, expires_at |-> now + 48, fulfilled_at |-> NULL])
           /\ UNCHANGED <<copies, loans, carts>>

\* C13: create_reservation is accepted exactly when the book exists, the
\* caller has no PENDING reservation of it and no copy of it is AVAILABLE; it
\* then inserts one PENDING reservation of the caller, expiring 48 hours
\* later.  It answers DuplicateReservation to a caller with a PENDING
\* reservation and CopyAvailable when a copy is AVAILABLE, and a rejected
\* request changes nothing.
C13_CreateReservation ==
    /\ [][C13_Decision]_vars
    /\ [][C13_Insert]_vars

\* C13 witness: a reservation was inserted, and the same user's next request
\* for the book is answered DuplicateReservation.
C13_Witness ==
    /\ req["p1"].op = "create_reservation" /\ req["p1"].result = "DuplicateReservation"
    /\ Len(reservations) = 1 /\ reservations[1].status = "PENDING"
    /\ reservations[1].user = req["p1"].user

\* C13 witness of the other rejection: CopyAvailable, nothing inserted.
C13_WitnessCopyAvailable ==
    /\ req["p1"].op = "create_reservation" /\ req["p1"].result = "CopyAvailable"
    /\ reservations = <<>>

\* Process p starts cancel_reservation of reservation i for caller u.
StartsCancel(p, u, i) ==
    /\ Free(p) /\ ops' = ops - 1
    /\ req'[p].op = "cancel_reservation" /\ req'[p].user = u /\ req'[p].resv = i

C14_Decision ==
    \A p \in Procs, u \in Users, i \in ResIds :
        StartsCancel(p, u, i) =>
           /\ req'[p].pc = "commit" <=>
                 (reservations[i].user = u /\ reservations[i].status = "PENDING")
           /\ req'[p].pc # "commit" => Free(p)' /\ req'[p].result # "ok"
           /\ reservations[i].user # u => req'[p].result = "Forbidden"
           /\ (reservations[i].user = u /\ reservations[i].status # "PENDING")
                 => req'[p].result = "InvalidState"
           /\ reservations' = reservations

C14_Cancel ==
    \A i \in ResIds :
        reservations'[i] # reservations[i] /\ reservations'[i].status = "CANCELLED" =>
           /\ reservations[i].status = "PENDING"
           /\ reservations' = [reservations EXCEPT ![i].status = "CANCELLED"]
           /\ \E p \in Procs : /\ req[p].op = "cancel_reservation" /\ req[p].pc = "commit"
                               /\ req[p].resv = i /\ req[p].user = reservations[i].user
                               /\ req'[p].result = "ok"

\* C14: cancel_reservation is accepted exactly when the caller owns the
\* reservation and it is PENDING; a caller who is not the owner is answered
\* Forbidden whatever the status, the owner of a reservation that is not
\* PENDING InvalidState, and a refused request leaves the reservations as they
\* are.  A reservation becomes CANCELLED only from PENDING, in its owner's
\* cancel_reservation, which changes nothing else of it.
C14_CancelReservation ==
    /\ [][C14_Decision]_vars
    /\ [][C14_Cancel]_vars

\* C14 witness: the owner has cancelled the reservation and cancels it again:
\* InvalidState, and the reservation is CANCELLED as before.
C14_Witness ==
    /\ req["p1"].op = "cancel_reservation" /\ req["p1"].result = "InvalidState"
    /\ req["p1"].resv \in ResIds
    /\ reservations[req["p1"].resv].status = "CANCELLED"
    /\ reservations[req["p1"].resv].user = req["p1"].user

\* ------------------------------------------------------ claims on pickups
\* Process p starts confirm_pickup of borrow record i in this step (a step
\* that leaves p's last reply in place is a request only if it repeats a
\* refusal: a request is never answered "ok" before its commit).
StartsConfirm(p, i) ==
    /\ Free(p) /\ ops' = ops - 1
    /\ req'[p] # req[p] \/ req[p].result = "BadRequest"
    /\ req'[p].op = "confirm_pickup" /\ req'[p].rec = i

C15_Decision ==
    \A p \in Procs, i \in LoanRows :
        StartsConfirm(p, i) =>
           /\ req'[p].pc = "commit" <=> loans[i].status = "PENDING"
           /\ loans[i].status # "PENDING" => Free(p)' /\ req'[p].result = "BadRequest"
           /\ loans' = loans /\ copies' = copies

C15_Pickup ==
    \A p \in Procs :
        (req[p].op = "confirm_pickup" /\ req[p].pc = "commit" /\ req'[p] # req[p]) =>
           /\ req'[p].result = "ok"
           /\ loans[req[p].rec].status = "PENDING"
           /\ loans' = [loans EXCEPT ![req[p].rec].status = "ACTIVE",
                                     ![req[p].rec].borrowed_at = now]
           /\ copies' = copies

\* C15: confirm_pickup is accepted exactly on a PENDING borrow record, which
\* it makes ACTIVE with borrowed_at the time of the pickup; on a record in
\* another status it answers the 400 failure and changes no record; no step
\* of it changes a copy.
C15_ConfirmPickup ==
    /\ [][C15_Decision]_vars
    /\ [][C15_Pickup]_vars

\* C15 witness: a pickup confirmed a day or more after the checkout; the
\* record is ACTIVE, borrowed at the pickup, and its copy is still BORROWED.
C15_Witness ==
    /\ req["p1"].op = "confirm_pickup" /\ req["p1"].result = "ok"
    /\ req["p1"].rec \in LoanRows
    /\ loans[req["p1"].rec].status = "ACTIVE"
    /\ loans[req["p1"].rec].borrowed_at > loans[req["p1"].rec].created_at
    /\ copies[loans[req["p1"].rec].copy] = "BORROWED"

\* C16: every change of a borrow record's status is PENDING -> ACTIVE,
\* PENDING -> CANCELLED, PENDING -> RETURNED or ACTIVE -> RETURNED; RETURNED
\* and CANCELLED records never change status, and none becomes OVERDUE.
C16_LoanTransitions ==
    [][\A i \in LoanIds :
         loans'[i].status # loans[i].status =>
            <<loans[i].status, loans'[i].status>> \in
               {<<"PENDING", "ACTIVE">>, <<"PENDING", "CANCELLED">>,
                <<"PENDING", "RETURNED">>, <<"ACTIVE", "RETURNED">>}]_vars

\* ------------------------------------------------------ claims on returns
\* Process p starts the return by copy id of copy c for caller u.
StartsReturnByCopy(p, u, c) ==
    /\ Free(p) /\ ops' = ops - 1
    /\ req'[p].op = "return_book" /\ req'[p].user = u /\ req'[p].copy = c

\* Process p starts the return by record id of borrow record i.
StartsReturnByRecord(p, i) ==
    /\ Free(p) /\ ops' = ops - 1
    /\ req'[p] # req[p] \/ req[p].result = "BadRequest"
    /\ req'[p].op = "borrowing_return_book" /\ req'[p].rec = i

C17_Accepted ==
    \A p \in Procs, i \in LoanRows :
        (/\ loans[i].status \in {"PENDING", "ACTIVE"}
         /\ \/ StartsReturnByCopy(p, loans[i].user, loans[i].copy)
            \/ StartsReturnByRecord(p, i))
        => req'[p].pc = "commit" /\ req'[p].rec = i

C17_Returned ==
    \A p \in Procs :
        (/\ req[p].op \in {"return_book", "borrowing_return_book"} /\ req[p].pc = "commit"
         /\ req'[p] # req[p] /\ loans[req[p].rec].status \in {"PENDING", "ACTIVE"})
        => /\ req'[p].result = "ok"
           /\ loans' = [loans EXCEPT ![req[p].rec].status = "RETURNED",
                                     ![req[p].rec].returned_at = now]
           /\ copies'[req[p].copy] = "AVAILABLE"

C17_AlreadyReturned ==
    \A p \in Procs, i \in LoanRows :
        (loans[i].status = "RETURNED" /\ StartsReturnByRecord(p, i))
        => /\ req'[p].result = "BadRequest"
           /\ UNCHANGED <<loans, copies, reservations>>

\* C17: a return of a PENDING or ACTIVE borrow record, by copy id or by record
\* id, is accepted and its commit makes the record RETURNED with returned_at
\* set and the copy AVAILABLE; the return of a RETURNED record is refused and
\* changes no record, copy or reservation.
C17_ReturnLoan ==
    /\ [][C17_Accepted]_vars
    /\ [][C17_Returned]_vars
    /\ [][C17_AlreadyReturned]_vars

\* ------------------------------------------------------ claims on the sweep
\* The PENDING borrow records created more than 48 hours ago, and those
\* created less than 48 hours ago.
OlderPickups == {i \in LoanRows : loans[i].status = "PENDING" /\ loans[i].created_at + 48 < now}
YoungerPickups == {i \in LoanRows : loans[i].status = "PENDING" /\ loans[i].created_at + 48 > now}

\* The borrow records this step changes.
ChangedLoans == {i \in LoanIds : loans'[i] # loans[i]}

\* The sweep's run ends in this step.
SweepEnds == sweeper.pc = "commit" /\ sweeper'.pc = "idle"

\* The sweep starts in this step and finds no borrow record to cancel.
SweepFindsNothing ==
    /\ sweeper.pc = "idle" /\ ops' = ops - 1 /\ req' = req
    /\ \A i \in LoanRows : loans[i].status = "PENDING" => i \in YoungerPickups

C18_Cancels ==
    SweepEnds =>
       /\ Len(loans') = Len(loans)
       /\ OlderPickups \subseteq ChangedLoans
       /\ ChangedLoans \cap YoungerPickups = {}
       /\ \A i \in ChangedLoans :
            /\ loans[i].status = "PENDING"
            /\ loans'[i] = [loans[i] EXCEPT !.status = "CANCELLED"]
            /\ copies'[loans[i].copy] = "AVAILABLE"
       /\ \A c \in CopyIds :
            (\A i \in ChangedLoans : loans[i].copy # c) => copies'[c] = copies[c]
       /\ UNCHANGED <<reservations, carts>>

C18_NoMatch ==
    SweepFindsNothing => sweeper'.pc = "idle" /\ UNCHANGED <<loans, copies, reservations, carts>>

\* C18: a run of the sweep changes the PENDING borrow records created more
\* than 48 hours ago, and no record created less than 48 hours ago or in
\* another status: each record it changes was PENDING, becomes CANCELLED and
\* nothing else of it changes, and its copy becomes AVAILABLE; the other
\* copies, the reservations and the carts are unchanged.  A run that finds no
\* record ends at once and changes nothing.
C18_SweepExpiredPickups ==
    /\ [][C18_Cancels]_vars
    /\ [][C18_NoMatch]_vars

\* C18 witness: after a run, a record older than 48 hours is CANCELLED and its
\* copy AVAILABLE, and a younger PENDING record and its copy are as they were.
C18_Witness ==
    /\ sweeper.pc = "idle"
    /\ \E i, j \in LoanRows :
         /\ loans[i].status = "CANCELLED" /\ loans[i].created_at + 48 < now
         /\ copies[loans[i].copy] = "AVAILABLE"
         /\ loans[j].status = "PENDING" /\ loans[j].created_at + 48 > now
         /\ copies[loans[j].copy] = "BORROWED"
\* A run of the sweep writes a copy AVAILABLE.
SweepFrees(c) == SweepEnds /\ copies[c] # "AVAILABLE" /\ copies'[c] = "AVAILABLE"

\* C19: under every interleaving of a run of the sweep with confirm_pickup and
\* with the return by record id, the run never sets CANCELLED a borrow record
\* that is ACTIVE or RETURNED when the run writes, and never sets a copy
\* AVAILABLE that a PENDING or ACTIVE borrow record then references.
C19_SweepDoesNotRace ==
    [][SweepEnds =>
         /\ \A i \in LoanRows :
               loans[i].status \in {"ACTIVE", "RETURNED"}
                  => loans'[i].status # "CANCELLED"
         /\ \A c \in CopyIds :
               SweepFrees(c) => OpenLoans(c)' = {}]_vars

\* ---------------------------------------------------- claims on the scheduler
\* C20: at no time do two instances of the expired-pickup sweep execute: while
\* a run executes, a firing of the trigger starts no second run, and the run
\* keeps the records it has read.
C20_OneSweepAtATime ==
    /\ [](RunningSweeps <= 1)
    /\ [][(sweeper.pc = "commit" /\ sweeper'.pc = "commit")
            => (sweeper'.recs = sweeper.recs /\ sweeper'.later = <<>>)]_vars

\* C20 witness: a run of the sweep executes and a firing of the trigger has
\* been dropped since it started.
C20_Witness == sweeper.pc = "commit" /\ sweeper.skipped /\ RunningSweeps = 1

\* ------------------------------------------------------ claims on the catalog
\* C21: no copy is deleted while its status is BORROWED, neither by
\* delete_book_copy nor by the cascade of delete_book.
C21_NoBorrowedCopyDeleted ==
    [][\A c \in CopyIds : copies[c] = "BORROWED" => copies'[c] # "DELETED"]_vars

\* A release: a return by copy id or by record id commits, or a run of the
\* sweep ends, in this step.
Releases ==
    \/ \E p \in Procs : ReturnCommits(p) \/ RecordReturnCommits(p)
    \/ SweepEnds

\* C22: a release never changes a LOST copy to AVAILABLE, and it leaves an
\* AVAILABLE copy AVAILABLE.
C22_GuardedRelease ==
    [][Releases =>
         \A c \in CopyIds :
            /\ copies[c] = "LOST" => copies'[c] # "AVAILABLE"
            /\ copies[c] = "AVAILABLE" => copies'[c] = "AVAILABLE"]_vars

\* ------------------------------------------------------ claims on due dates
\* C23: every borrow record, created by borrow_book or by checkout_cart, has
\* a due date strictly after the time of its creation.
C23_DueAfterCreation ==
    \A i \in LoanRows : loans[i].due_date > loans[i].created_at

\* --------------------------------------------- claims on the recurring sweep
\* Borrow record i has been PENDING for longer than the threshold.
StalePickup(i) ==
    i \in LoanRows /\ loans[i].status = "PENDING"
                   /\ loans[i].created_at + PICKUP_EXPIRY_HOURS < now

\* Borrow record i is CANCELLED and its copy is AVAILABLE again.
Reclaimed(i) ==
    i \in LoanRows /\ loans[i].status = "CANCELLED"
                   /\ copies[loans[i].copy] = "AVAILABLE"

\* C24: every borrow record that stays PENDING for longer than 48 hours is
\* eventually CANCELLED with its copy AVAILABLE again, by the recurring sweep
\* alone: no request is needed, and only a pickup confirmed in the meantime
\* takes the record out of the sweep's reach.
C24_StalePickupsReclaimed ==
    \A i \in 1..MaxLoans :
        StalePickup(i) ~> (Reclaimed(i) \/ (i \in LoanRows /\ loans[i].status = "ACTIVE"))

\* C24 witness: a borrow record created more than 48 hours ago is CANCELLED and
\* its copy is AVAILABLE, and no pickup was ever confirmed.
C24_Witness ==
    /\ \E i \in LoanRows : Reclaimed(i) /\ loans[i].created_at + PICKUP_EXPIRY_HOURS < now
    /\ \A i \in LoanRows : loans[i].status \in {"PENDING", "CANCELLED"}

\* C25: a PENDING reservation whose expires_at has passed is eventually
\* marked EXPIRED by the scheduler, whether or not a copy is returned.
C25_ExpiredReservationsSwept ==
    \A i \in 1..MaxReservations :
        (i \in ResRows /\ is_expired(reservations[i]))
            ~> (i \in ResRows /\ reservations[i].status = "EXPIRED")

\* ------------------------------------------- claims on the reservation queue
\* C26: a reservation becomes FULFILLED, by a return or by
\* fulfill_reservation, only if it is not expired, it is the oldest PENDING
\* reservation of its book and a copy of the book is AVAILABLE when the step
\* is done.
C26_FulfilledOnlyAtHead ==
    [][\A i \in BecomeFulfilled :
         /\ ~is_expired(reservations[i])
         /\ i \in FirstPending(reservations[i].book)
         /\ \E c \in CopyIds : BookOf(c) = reservations[i].book /\ copies'[c] = "AVAILABLE"]_vars

\* C27: a reservation only ever leaves PENDING, also when a cancellation, a
\* fulfilment by the librarian and the fulfilment step of a return overlap on
\* it, and fulfilled_at is set exactly on the FULFILLED reservations.
C27_ReservationFinal ==
    /\ [][\A i \in ResIds :
            reservations[i].status # "PENDING"
               => reservations'[i].status = reservations[i].status]_vars
    /\ [](\A i \in ResRows :
            reservations[i].fulfilled_at # NULL <=> reservations[i].status = "FULFILLED")

\* ----------------------------------------------------- claims on borrow_book
\* Process p starts a borrow_book request in this step, and finishes one.
StartsBorrow(p) == Free(p) /\ ops' = ops - 1 /\ req'[p].op = "borrow_book"
BorrowEnds(p) == req[p].op = "borrow_book" /\ req[p].pc = "commit" /\ Free(p)'

\* The handler goes on to its commit exactly when the copy exists and is
\* AVAILABLE; an unknown copy is answered NotFound, a copy in another status
\* a bad request, and neither changes a borrow record or a copy.
C28_Decision ==
    \A p \in Procs :
        StartsBorrow(p) =>
           LET c == req'[p].copy IN
           /\ req'[p].pc = "commit" <=> (CopyExists(c) /\ copies[c] = "AVAILABLE")
           /\ ~CopyExists(c) => req'[p].result = "NotFound"
           /\ (CopyExists(c) /\ copies[c] # "AVAILABLE") => req'[p].result = "BadRequest"
           /\ UNCHANGED <<copies, loans>>

\* The commit appends one ACTIVE record of the caller for the copy, with
\* returned_at empty, and sets the copy BORROWED, in one step.
C28_Commit ==
    \A p \in Procs :
        BorrowEnds(p) =>
           /\ req'[p].result = "ok"
           /\ Len(loans') = Len(loans) + 1
           /\ \A i \in LoanIds : loans'[i] = loans[i]
           /\ LET l == loans'[Len(loans')] IN
                /\ l.copy = req[p].copy /\ l.user = req[p].user
                /\ l.status = "ACTIVE" /\ l.returned_at = NULL
           /\ copies' = [copies EXCEPT ![req[p].copy] = "BORROWED"]

\* C28: borrow_book succeeds exactly when the copy exists and is AVAILABLE: it
\* then creates one ACTIVE borrow record of the caller and sets the copy
\* BORROWED in the same commit; otherwise it answers NotFound or a bad request
\* and changes nothing.
C28_BorrowBook == [][C28_Decision /\ C28_Commit]_vars

\* C28 witness: a borrow has succeeded on one copy and a later borrow of a
\* LOST copy has been refused.
C28_Witness ==
    /\ req["p1"].op = "borrow_book" /\ req["p1"].result = "BadRequest"
    /\ copies[req["p1"].copy] = "LOST"
    /\ \E i \in LoanRows : loans[i].status = "ACTIVE" /\ copies[loans[i].copy] = "BORROWED"

\* --------------------------------------------------------- claims on carts
\* C29: a cart holds each book at most once, also when the same user adds the
\* same book on two connections at once.
C29_NoBookTwiceInCart ==
    \A u \in Users :
        \A j, k \in 1..Len(carts[u].items) :
            j # k => carts[u].items[j] # carts[u].items[k]

\* The checkout of process p commits in this step.
CheckoutCommits(p) == AtCheckoutEnd(p) /\ req'[p].result = "ok"

\* C30: every item that a successful checkout removes from the cart has a
\* borrow record created for its book by that checkout, whatever add_to_cart
\* requests of the same user are in flight.
C30_NoItemLostAtCheckout ==
    [][\A p \in Procs :
         CheckoutCommits(p) =>
            LET u == req[p].user IN
            \A k \in 1..Len(carts[u].items) :
               \/ \E j \in 1..Len(carts'[u].items) : carts'[u].items[j] = carts[u].items[k]
               \/ \E i \in req'[p].created :
                     /\ i \notin LoanIds /\ loans'[i].user = u
                     /\ BookOf(loans'[i].copy) = carts[u].items[k]]_vars

\* C30 witness: a checkout has committed and emptied the cart while an
\* add_to_cart of the same user, started before that commit, waits to write.
C30_Witness ==
    /\ req["p1"].op = "checkout_cart" /\ req["p1"].result = "ok" /\ req["p1"].created # {}
    /\ req["p2"].op = "add_to_cart" /\ req["p2"].pc = "commit"
    /\ req["p2"].user = req["p1"].user
    /\ carts[req["p1"].user].items = <<>>
====
